---- MODULE Spec2Model ----
(***************************************************************************)
(* Keyword classifier with auto-labeling                                   *)
(* ("words search/klasifikator_enchanted.py").                             *)
(*                                                                         *)
(* Texts, keywords and file names are sequences of characters; a character *)
(* is a one-element value named by itself (ASCII) or by its code point.    *)
(* File contents are sequences of bytes, named the same way.               *)
(***************************************************************************)
EXTENDS Integers, Sequences, FiniteSets, TLC

(***************************************************************************)
(* Bounds of the model.                                                    *)
(***************************************************************************)
MaxFiles == 2
MaxTextLen == 3
MaxKeywords == 2

(***************************************************************************)
(* Generic sequence helpers.                                               *)
(***************************************************************************)
RECURSIVE Flatten(_)
Flatten(ss) == IF ss = <<>> THEN <<>> ELSE Head(ss) \o Flatten(Tail(ss))

RECURSIVE SumSeq(_)
SumSeq(ns) == IF ns = <<>> THEN 0 ELSE Head(ns) + SumSeq(Tail(ns))

Range(s) == {s[i] : i \in DOMAIN s}

SeqsUpTo(S, n) == UNION {[1..k -> S] : k \in 0..n}

(***************************************************************************)
(* Unicode data of the characters the model uses (str.lower,               *)
(* unicodedata.normalize("NFKD", .), unicodedata.combining, and the \w     *)
(* class of the re module).                                                *)
(*   U+0160 S with caron, U+0161 s with caron, U+030C combining caron,     *)
(*   U+00E9 e with acute, U+0301 combining acute, U+33BE SQUARE KW.        *)
(***************************************************************************)
CharLower(c) ==
  CASE c = "K" -> "k"
    [] c = "W" -> "w"
    [] c = "T" -> "t"
    [] c = "A" -> "a"
    [] c = "C" -> "c"
    [] c = "U+0160" -> "U+0161"
    [] OTHER -> c

CharNFKD(c) ==
  CASE c = "U+0160" -> <<"S", "U+030C">>
    [] c = "U+0161" -> <<"s", "U+030C">>
    [] c = "U+00E9" -> <<"e", "U+0301">>
    [] c = "U+33BE" -> <<"k", "W">>
    [] OTHER -> <<c>>

CharCombining(c) == c \in {"U+030C", "U+0301"}

CharIsWord(c) == c \notin {" ", ".", ",", "U+030C", "U+0301", "U+33BE"}

(***************************************************************************)
(* normalize_text: lower(), then NFKD, then drop combining marks.          *)
(***************************************************************************)
StrLower(text) == [i \in DOMAIN text |-> CharLower(text[i])]

StrNFKD(text) == Flatten([i \in DOMAIN text |-> CharNFKD(text[i])])

StripCombining(text) == SelectSeq(text, LAMBDA ch : ~CharCombining(ch))

normalize_text(text) == StripCombining(StrNFKD(StrLower(text)))

(***************************************************************************)
(* tokenize: WORD_RE.findall over the normalized text, i.e. the maximal    *)
(* runs of word characters, left to right.                                 *)
(***************************************************************************)
RECURSIVE FindAllWords(_, _)
FindAllWords(text, cur) ==
  IF text = <<>>
    THEN (IF cur = <<>> THEN <<>> ELSE <<cur>>)
    ELSE IF CharIsWord(Head(text))
      THEN FindAllWords(Tail(text), Append(cur, Head(text)))
      ELSE (IF cur = <<>> THEN <<>> ELSE <<cur>>) \o FindAllWords(Tail(text), <<>>)

tokenize(text) == FindAllWords(normalize_text(text), <<>>)

(***************************************************************************)
(* find_exact_word_positions: the 0-based positions i with tokens[i] = kw. *)
(***************************************************************************)
find_exact_word_positions(tokens, keyword) ==
  LET idx == SelectSeq([i \in 1..Len(tokens) |-> i], LAMBDA i : tokens[i] = keyword)
  IN  [j \in DOMAIN idx |-> idx[j] - 1]

(***************************************************************************)
(* rapidfuzz's fuzz.ratio(a, b) = 100 * 2*LCS(a, b) / (len a + len b), and *)
(* 100 for two empty strings.  The comparison "ratio >= threshold" is made *)
(* on integers by cross-multiplication.                                    *)
(***************************************************************************)
RECURSIVE LCS(_, _)
LCS(a, b) ==
  IF a = <<>> \/ b = <<>> THEN 0
  ELSE IF Head(a) = Head(b) THEN 1 + LCS(Tail(a), Tail(b))
  ELSE LET x == LCS(Tail(a), b)
           y == LCS(a, Tail(b))
       IN  IF x >= y THEN x ELSE y

RatioAtLeast(a, b, threshold) ==
  IF Len(a) + Len(b) = 0
    THEN 100 >= threshold
    ELSE 200 * LCS(a, b) >= threshold * (Len(a) + Len(b))

(***************************************************************************)
(* fuzzy_token_hits: no hits without the backend, else the positions of    *)
(* the tokens whose ratio to the keyword is >= threshold.                  *)
(***************************************************************************)
FuzzyHitsDedup(has, tokens, keyword, threshold) ==
  IF ~has THEN <<>>
  ELSE SelectSeq([i \in 1..Len(tokens) |-> i],
                 LAMBDA i : tokens[i] # keyword /\ RatioAtLeast(tokens[i], keyword, threshold))

FuzzyHitsReversed(has, tokens, keyword, threshold) ==
  IF ~has THEN <<>>
  ELSE SelectSeq([i \in 1..Len(tokens) |-> i],
                 LAMBDA i : ~RatioAtLeast(tokens[i], keyword, threshold))

fuzzy_token_hits(has, tokens, keyword, threshold) ==
  IF ~has THEN <<>>
  ELSE SelectSeq([i \in 1..Len(tokens) |-> i],
                 LAMBDA i : RatioAtLeast(tokens[i], keyword, threshold))

(***************************************************************************)
(* score_matches_for_file: the score is the sum, over the keywords in list *)
(* order, of the exact hits, plus (use_fuzzy and backend) the sum of the   *)
(* fuzzy hits.  details is keyed by the raw keyword: a later entry of the  *)
(* same keyword replaces the earlier one.                                  *)
(***************************************************************************)
ExactCounts(tokens, keywords) ==
  [k \in DOMAIN keywords |->
     Len(find_exact_word_positions(tokens, normalize_text(keywords[k])))]

FuzzyCounts(has, tokens, keywords, threshold) ==
  [k \in DOMAIN keywords |->
     Len(fuzzy_token_hits(has, tokens, normalize_text(keywords[k]), threshold))]

DetailsOf(keywords, counts) ==
  [kw \in {keywords[k] : k \in {j \in DOMAIN keywords : counts[j] > 0}} |->
     counts[CHOOSE k \in DOMAIN keywords :
              /\ keywords[k] = kw /\ counts[k] > 0
              /\ \A j \in DOMAIN keywords :
                   (keywords[j] = kw /\ counts[j] > 0) => j <= k]]

score_matches_for_file(has, raw_text, keywords, fuzzy_threshold, use_fuzzy) ==
  LET tokens == tokenize(raw_text)
      ex == ExactCounts(tokens, keywords)
      fz == IF use_fuzzy /\ has
              THEN FuzzyCounts(has, tokens, keywords, fuzzy_threshold)
              ELSE [k \in DOMAIN keywords |-> 0]
  IN  [score |-> SumSeq(ex) + SumSeq(fz),
       words |-> DetailsOf(keywords, ex),
       fuzzy |-> DetailsOf(keywords, fz)]

(***************************************************************************)
(* The file system.  The model holds one directory; a path is the file's   *)
(* name in it (os.path.split / os.path.join keep the folder unchanged).    *)
(* fs maps each existing name to the physical file stored under it:        *)
(* [id, data], data being the file's bytes.                                *)
(***************************************************************************)
APPROVED == <<"_", "A", "p", "p", "r", "o", "v", "e", "d">>
CANCELED == <<"_", "C", "a", "n", "c", "e", "l", "e", "d">>

EndsWith(s, suf) ==
  Len(suf) <= Len(s) /\ SubSeq(s, Len(s) - Len(suf) + 1, Len(s)) = suf

\* os.path.splitext on a name without separators: split at the last dot,
\* unless every character before that dot is a dot too.
splitext(name) ==
  LET dots == {i \in DOMAIN name : name[i] = "."}
      d == IF dots = {} THEN 0 ELSE CHOOSE i \in dots : \A j \in dots : j <= i
  IN  IF d > 0 /\ \E j \in 1..(d - 1) : name[j] # "."
        THEN <<SubSeq(name, 1, d - 1), SubSeq(name, d, Len(name))>>
        ELSE <<name, <<>>>>

\* os.rename on POSIX: the source name disappears, the target name holds the
\* source's file, replacing whatever was stored there.
os_rename(files, src, dst) ==
  [n \in (DOMAIN files \ {src}) \cup {dst} |-> IF n = dst THEN files[src] ELSE files[n]]

\* mark_file, lines 66-71: the requested name.
new_name(path, approved) ==
  LET be == splitext(path)
  IN  be[1] \o (IF approved THEN APPROVED ELSE CANCELED) \o be[2]

\* mark_file without the os.path.exists test.
mark_file_overwrite(files, path, approved) ==
  [files |-> os_rename(files, path, new_name(path, approved)), printed |-> "renamed"]

\* mark_file, lines 73-78: rename unless the target exists; printed is the
\* line it prints.
mark_file(files, path, approved) ==
  IF new_name(path, approved) \notin DOMAIN files
    THEN [files |-> os_rename(files, path, new_name(path, approved)), printed |-> "renamed"]
    ELSE [files |-> files, printed |-> "skipped"]

(***************************************************************************)
(* _iter_paths: the argument itself when it is a file (and passes the      *)
(* extension filter), else the names of the directory that pass it.        *)
(* os.walk lists them in an order the file system chooses.                 *)
(***************************************************************************)
DIR == <<"d">>

matches_extensions(name, extensions) ==
  extensions = <<>> \/ \E e \in Range(extensions) : EndsWith(StrLower(name), e)

iter_path_set(files, dir_or_file, extensions) ==
  IF dir_or_file \in DOMAIN files
    THEN {n \in {dir_or_file} : matches_extensions(n, extensions)}
    ELSE {n \in DOMAIN files : matches_extensions(n, extensions)}

Orderings(S) ==
  {p \in [1..Cardinality(S) -> S] : \A i, j \in DOMAIN p : i # j => p[i] # p[j]}

(***************************************************************************)
(* open(fp, encoding="utf-8").read(), with the latin-1 fallback.  The only *)
(* non-ASCII byte of the model is 0xE9, which no UTF-8 text holds without  *)
(* continuation bytes; latin-1 decodes it to U+00E9.                       *)
(***************************************************************************)
Utf8Valid(data) == \A i \in DOMAIN data : data[i] # "0xE9"

Latin1Decode(data) ==
  [i \in DOMAIN data |-> IF data[i] = "0xE9" THEN "U+00E9" ELSE data[i]]

read_text(data) == IF Utf8Valid(data) THEN data ELSE Latin1Decode(data)

(***************************************************************************)
(* approved = score >= min_score                                           *)
(***************************************************************************)
decide_strict(score, min_score) == score > min_score

decide(score, min_score) == score >= min_score

(***************************************************************************)
(* results.sort(key=score, reverse=True): descending by score, stable.     *)
(***************************************************************************)
RECURSIVE InsertDesc(_, _)
InsertDesc(sorted, r) ==
  IF sorted = <<>> THEN <<r>>
  ELSE IF Head(sorted).score >= r.score
    THEN <<Head(sorted)>> \o InsertDesc(Tail(sorted), r)
    ELSE <<r>> \o sorted

RECURSIVE SortFrom(_, _)
SortFrom(sorted, rest) ==
  IF rest = <<>> THEN sorted ELSE SortFrom(InsertDesc(sorted, Head(rest)), Tail(rest))

unsorted(rs) == rs

sort_by_score_desc(rs) == SortFrom(<<>>, rs)

(***************************************************************************)
(* State.                                                                  *)
(*   search_and_label: fs, HAS_RAPIDFUZZ, args (the call's arguments),     *)
(*     paths (the list _iter_paths returned), idx (the loop's position in  *)
(*     it, 1-based), results, out (one entry per line mark_file printed,   *)
(*     with the physical file it was about), pc, run (calls made so far),  *)
(*     snap (the names present when the call began), prev (the previous    *)
(*     call's arguments and outcome).                                      *)
(*   score_matches_for_file alone: q (the call's arguments), sc (its       *)
(*     result), scPrev (the previous call's result), qstep (the calls made: *)
(*     "scored", then "added" or "lowered" for what changed in q).         *)
(*   normalize_text alone: hist (a text and its successive normalizations).*)
(***************************************************************************)
VARIABLES fs, HAS_RAPIDFUZZ, args, paths, idx, results, out, pc, run, snap, prev,
          q, sc, scPrev, qstep, hist

labelVars == <<fs, HAS_RAPIDFUZZ, args, paths, idx, results, out, pc, run, snap, prev>>
pureVars == <<q, sc, scPrev, qstep, hist>>
vars == <<fs, HAS_RAPIDFUZZ, args, paths, idx, results, out, pc, run, snap, prev,
          q, sc, scPrev, qstep, hist>>

None == <<>>

(***************************************************************************)
(* Inputs.                                                                 *)
(***************************************************************************)
NamePool ==
  << <<"a", ".", "t">>,
     <<"a">> \o APPROVED \o <<".", "t">>,
     <<"a">> \o CANCELED \o <<".", "t">>,
     <<"b", ".", "T">>,
     <<"c">> >>

ContentPool ==
  { <<"x">>,
    <<"k", "W", " ", "k", "w">>,
    <<"k", "w", " ", "0xE9">> }

ArgPool(files) ==
  {[dirpath |-> d, keywords |-> << <<"k", "W">> >>, min_score |-> m[1],
    extensions |-> << <<".", "t">> >>, use_fuzzy |-> m[2], fuzzy_threshold |-> 80] :
     d \in {DIR} \cup (DOMAIN files \cap {NamePool[1]}),
     m \in {<<2, FALSE>>, <<0, FALSE>>, <<2, TRUE>>}}

InitLabel ==
  /\ \E ids \in SUBSET DOMAIN NamePool :
       /\ Cardinality(ids) <= MaxFiles
       /\ \E data \in [ids -> ContentPool] :
            fs = [n \in {NamePool[i] : i \in ids} |->
                    LET i == CHOOSE j \in ids : NamePool[j] = n
                    IN  [id |-> i, data |-> data[i]]]
  /\ HAS_RAPIDFUZZ \in BOOLEAN
  /\ args = None /\ paths = <<>> /\ idx = 1 /\ results = <<>> /\ out = <<>>
  /\ pc = "idle" /\ run = 0 /\ snap = {} /\ prev = None

IdleScore == q = None /\ sc = None /\ scPrev = None /\ qstep = <<>>
IdleNorm == hist = <<>>
IdleLabel ==
  /\ fs = <<>> /\ HAS_RAPIDFUZZ = FALSE
  /\ args = None /\ paths = <<>> /\ idx = 1 /\ results = <<>> /\ out = <<>>
  /\ pc = "idle" /\ run = 0 /\ snap = {} /\ prev = None

Init == InitLabel /\ IdleScore /\ IdleNorm

(***************************************************************************)
(* search_and_label.                                                       *)
(***************************************************************************)
Raised == pc \in {"raised_open", "raised_rename"}

\* Lines 103-107: a call begins; _iter_paths lists the files once.
Begin(a) ==
  /\ args' = a
  /\ \E p \in Orderings(iter_path_set(fs, a.dirpath, a.extensions)) : paths' = p
  /\ prev' = IF run = 0 THEN None ELSE [args |-> args, pc |-> pc]
  /\ idx' = 1 /\ results' = <<>> /\ out' = <<>>
  /\ pc' = "loop" /\ run' = run + 1 /\ snap' = DOMAIN fs
  /\ UNCHANGED <<fs, HAS_RAPIDFUZZ>>

\* The first call.
Start ==
  /\ pc = "idle" /\ run = 0
  /\ \E a \in ArgPool(fs) : Begin(a)
  /\ UNCHANGED pureVars

\* A second call, after the first has returned.
Rerun ==
  /\ pc = "done" /\ run = 1
  /\ \E a \in ArgPool(fs) : Begin(a)
  /\ UNCHANGED pureVars

\* Lines 108-130: one iteration of the loop, without an I/O error.
ProcessFile ==
  /\ pc = "loop" /\ idx <= Len(paths)
  /\ paths[idx] \in DOMAIN fs
  /\ LET fp == paths[idx]
         raw == read_text(fs[fp].data)
         r == score_matches_for_file(HAS_RAPIDFUZZ, raw, args.keywords,
                                     args.fuzzy_threshold, args.use_fuzzy)
         approved == decide(r.score, args.min_score)
         marked == mark_file(fs, fp, approved)
     IN  /\ fs' = marked.files
         /\ out' = Append(out, [kind |-> marked.printed,
                                name |-> new_name(fp, approved),
                                file |-> fs[fp].id])
         /\ results' = Append(results, [path |-> fp, score |-> r.score,
                                        approved |-> approved,
                                        details |-> [words |-> r.words, fuzzy |-> r.fuzzy]])
  /\ idx' = idx + 1
  /\ UNCHANGED <<HAS_RAPIDFUZZ, args, paths, pc, run, snap, prev>>
  /\ UNCHANGED pureVars

\* Lines 109-113: open or read raises an OSError (the file is gone, or
\* unreadable); only UnicodeDecodeError is caught, so the call ends.
OpenError ==
  /\ pc = "loop" /\ idx <= Len(paths)
  /\ pc' = "raised_open"
  /\ UNCHANGED <<fs, HAS_RAPIDFUZZ, args, paths, idx, results, out, run, snap, prev>>
  /\ UNCHANGED pureVars

\* Line 75: os.rename raises an OSError; nothing catches it, so the call ends.
RenameError ==
  /\ pc = "loop" /\ idx <= Len(paths)
  /\ paths[idx] \in DOMAIN fs
  /\ LET fp == paths[idx]
         raw == read_text(fs[fp].data)
         r == score_matches_for_file(HAS_RAPIDFUZZ, raw, args.keywords,
                                     args.fuzzy_threshold, args.use_fuzzy)
     IN  new_name(fp, decide(r.score, args.min_score)) \notin DOMAIN fs
  /\ pc' = "raised_rename"
  /\ UNCHANGED <<fs, HAS_RAPIDFUZZ, args, paths, idx, results, out, run, snap, prev>>
  /\ UNCHANGED pureVars

\* Lines 132-133: the loop is over; sort and return.
Finish ==
  /\ pc = "loop" /\ idx > Len(paths)
  /\ results' = sort_by_score_desc(results)
  /\ pc' = "done"
  /\ UNCHANGED <<fs, HAS_RAPIDFUZZ, args, paths, idx, out, run, snap, prev>>
  /\ UNCHANGED pureVars

Next == Start \/ Rerun \/ ProcessFile \/ OpenError \/ RenameError \/ Finish

Spec == Init /\ [][Next]_vars

(***************************************************************************)
(* score_matches_for_file on its own: a call, then calls with a keyword    *)
(* added to the list or with a lower fuzzy_threshold.                      *)
(***************************************************************************)
TextAlphabet == {"k", "W", " "}
KeywordPool == { <<"k", "W">>, <<"k">> }
ThresholdPool == {80, 100, 101}

InsertAt(seq, pos, x) == SubSeq(seq, 1, pos - 1) \o <<x>> \o SubSeq(seq, pos, Len(seq))

ScoreOf(query) ==
  score_matches_for_file(query.has, query.raw_text, query.keywords,
                         query.fuzzy_threshold, query.use_fuzzy)

InitScore ==
  /\ IdleLabel /\ IdleNorm
  /\ q \in [has : BOOLEAN,
            raw_text : SeqsUpTo(TextAlphabet, MaxTextLen),
            keywords : SeqsUpTo(KeywordPool, MaxKeywords - 1),
            fuzzy_threshold : ThresholdPool,
            use_fuzzy : BOOLEAN]
  /\ sc = None /\ scPrev = None /\ qstep = <<>>

ScoreCall ==
  /\ qstep = <<>>
  /\ sc' = ScoreOf(q)
  /\ qstep' = <<"scored">>
  /\ UNCHANGED <<q, scPrev, hist>>
  /\ UNCHANGED labelVars

AddKeyword ==
  /\ qstep # <<>> /\ Len(q.keywords) < MaxKeywords
  /\ \E kw \in KeywordPool, pos \in 1..(Len(q.keywords) + 1) :
       q' = [q EXCEPT !.keywords = InsertAt(@, pos, kw)]
  /\ scPrev' = sc
  /\ sc' = ScoreOf(q')
  /\ qstep' = Append(qstep, "added")
  /\ UNCHANGED hist
  /\ UNCHANGED labelVars

LowerThreshold ==
  /\ qstep # <<>>
  /\ \E t \in ThresholdPool :
       /\ t < q.fuzzy_threshold
       /\ q' = [q EXCEPT !.fuzzy_threshold = t]
  /\ scPrev' = sc
  /\ sc' = ScoreOf(q')
  /\ qstep' = Append(qstep, "lowered")
  /\ UNCHANGED hist
  /\ UNCHANGED labelVars

NextScore == ScoreCall \/ AddKeyword \/ LowerThreshold

SpecScore == InitScore /\ [][NextScore]_vars

(***************************************************************************)
(* normalize_text on its own: a text, then normalize_text of the last      *)
(* result, twice.                                                          *)
(***************************************************************************)
NormAlphabet == {"k", "W", " ", "U+0160", "U+030C", "U+33BE"}

InitNorm ==
  /\ IdleLabel /\ IdleScore
  /\ \E s \in SeqsUpTo(NormAlphabet, MaxTextLen) : hist = <<s>>

Normalize ==
  /\ Len(hist) \in 1..2
  /\ hist' = Append(hist, normalize_text(hist[Len(hist)]))
  /\ UNCHANGED <<q, sc, scPrev, qstep>>
  /\ UNCHANGED labelVars

NextNorm == Normalize

SpecNorm == InitNorm /\ [][NextNorm]_vars

(***************************************************************************)
(* Properties of search_and_label and mark_file.                           *)
(***************************************************************************)
ResultPaths == [i \in DOMAIN results |-> results[i].path]

HasVerdictMarker(name) ==
  EndsWith(splitext(name)[1], APPROVED) \/ EndsWith(splitext(name)[1], CANCELED)

\* C1: when search_and_label has run twice in a row with the same arguments,
\* the set of file names after the second run equals the set after the first.
C1_IdempotentRelabeling ==
  (run = 2 /\ pc = "done" /\ prev.args = args) => DOMAIN fs = snap

\* C2: no step replaces the file stored under an existing name, no step
\* lowers the number of files or loses a physical file, and a step whose
\* rename target exists leaves the file system as it was and raises nothing.
C2_NeverOverwrites ==
  [][/\ \A n \in DOMAIN fs : n \in DOMAIN fs' => fs'[n] = fs[n]
     /\ Cardinality(DOMAIN fs') >= Cardinality(DOMAIN fs)
     /\ {fs'[n].id : n \in DOMAIN fs'} = {fs[n].id : n \in DOMAIN fs}
     /\ (Len(out') > Len(out) /\ out'[Len(out')].name \in DOMAIN fs)
          => (fs' = fs /\ out'[Len(out')].kind = "skipped" /\ pc' = "loop")
     /\ (Len(out') > Len(out) /\ out'[Len(out')].name \notin DOMAIN fs)
          => out'[Len(out')].kind = "renamed"]_vars

\* A rename was skipped because its target existed; source and target are
\* both still there.
C2_Witness ==
  \E i \in DOMAIN out :
    /\ out[i].kind = "skipped"
    /\ pc = "loop" /\ i = Len(out)
    /\ results[i].path \in DOMAIN fs /\ out[i].name \in DOMAIN fs
    /\ fs[results[i].path].id # fs[out[i].name].id

\* C3: no failure of open, read or os.rename ends the run.
C3_FailureIsolation == ~Raised

\* C4: a file whose name carries _Approved or _Canceled before its extension
\* keeps that name in every step.
C4_TerminalStates ==
  [][\A n \in DOMAIN fs :
       HasVerdictMarker(n) => (n \in DOMAIN fs' /\ fs'[n] = fs[n])]_vars

\* C5: within one run no physical file is renamed twice, and a file that was
\* renamed is not processed again.
C5_RenamedAtMostOnce ==
  \A i, j \in DOMAIN out :
    (i < j /\ out[i].kind = "renamed") => out[j].file # out[i].file

\* Two files were renamed in one run, the second onto the name the first
\* had when the run began.
C5_Witness ==
  \E i, j \in DOMAIN out :
    /\ i < j /\ pc = "loop"
    /\ out[i].kind = "renamed" /\ out[j].kind = "renamed"
    /\ out[j].name = results[i].path

\* C6: every result has approved = (score >= min_score), and the name
\* requested for its file is base, then _Approved if approved and _Canceled
\* if not, then the extension.
C6_VerdictAndMarker ==
  /\ \A i \in DOMAIN results :
       results[i].approved = (results[i].score >= args.min_score)
  /\ pc = "loop" =>
       \A i \in DOMAIN results :
         LET be == splitext(results[i].path)
         IN  out[i].name =
               be[1] \o (IF results[i].approved THEN APPROVED ELSE CANCELED) \o be[2]

\* With min_score 2, a file of score 2 was approved, a.t being asked to
\* become a_Approved.t, and a file of score 1 was not.
C6_Witness ==
  /\ pc = "loop" /\ args.min_score = 2
  /\ \E i, j \in DOMAIN results :
       /\ results[i].score = 2 /\ results[i].approved
       /\ results[i].path = <<"a", ".", "t">>
       /\ out[i].name = <<"a", "_", "A", "p", "p", "r", "o", "v", "e", "d", ".", "t">>
       /\ results[j].score = 1 /\ ~results[j].approved

\* C7 as stated: the returned list is in processing order.
C7_ProcessingOrder == pc = "done" => ResultPaths = paths

\* C7, amended: the returned list holds exactly one result per enumerated
\* file, by descending score, results of equal score in processing order.
PositionIn(p, x) == CHOOSE k \in DOMAIN p : p[k] = x

C7_SortedByScore ==
  pc = "done" =>
    /\ Len(results) = Len(paths)
    /\ \A k \in DOMAIN paths :
         Cardinality({i \in DOMAIN results : results[i].path = paths[k]}) = 1
    /\ \A i, j \in DOMAIN results :
         i < j =>
           \/ results[i].score > results[j].score
           \/ /\ results[i].score = results[j].score
              /\ PositionIn(paths, results[i].path) < PositionIn(paths, results[j].path)

\* A returned list whose order is not the processing order.
C7_Witness ==
  /\ pc = "done" /\ Len(results) >= 2
  /\ ResultPaths # paths

(***************************************************************************)
(* Properties of score_matches_for_file.                                   *)
(***************************************************************************)
RECURSIVE SumOver(_, _)
SumOver(f, S) ==
  IF S = {} THEN 0
  ELSE LET x == CHOOSE y \in S : TRUE IN f[x] + SumOver(f, S \ {x})

QTokens == tokenize(q.raw_text)
FuzzyOn == q.use_fuzzy /\ q.has

Pairs == (DOMAIN QTokens) \X (DOMAIN q.keywords)

\* What token i adds to the score for keyword k: 1 if it equals the
\* normalized keyword, plus 1 if fuzzy matching is on and its similarity to
\* the normalized keyword reaches the threshold (100 for an identical token).
Contribution(i, k) ==
  LET nkw == normalize_text(q.keywords[k])
  IN  IF QTokens[i] = nkw
        THEN (IF FuzzyOn /\ q.fuzzy_threshold <= 100 THEN 2 ELSE 1)
        ELSE (IF FuzzyOn /\ RatioAtLeast(QTokens[i], nkw, q.fuzzy_threshold) THEN 1 ELSE 0)

\* C8: the score is the unweighted sum, over every keyword and every token,
\* of the exact hit and the fuzzy hit, not deduplicated: an identical token
\* adds 2 with fuzzy matching on at a threshold <= 100, and 1 with it off.
C8_ScoreIsSumOfBothChannels ==
  qstep # <<>> =>
    sc.score = SumOver([pr \in Pairs |-> Contribution(pr[1], pr[2])], Pairs)

\* One keyword, one token identical to it, fuzzy matching on at threshold
\* 100 or below: the score is 2.
C8_Witness ==
  /\ qstep # <<>> /\ FuzzyOn /\ q.fuzzy_threshold <= 100
  /\ Len(q.keywords) = 1 /\ Len(QTokens) = 1
  /\ QTokens[1] = normalize_text(q.keywords[1])
  /\ sc.score = 2

\* C9: a call with a keyword added, or with a lower fuzzy_threshold, never
\* returns a lower score than the call before it.
C9_ScoreMonotonic ==
  Len(qstep) >= 2 => sc.score >= scPrev.score

\* After a keyword was added, a lower threshold raised the score.
C9_Witness ==
  /\ Len(qstep) >= 3
  /\ "added" \in Range(qstep)
  /\ qstep[Len(qstep)] = "lowered"
  /\ sc.score > scPrev.score

(***************************************************************************)
(* Properties of normalize_text.                                           *)
(***************************************************************************)
\* C10: normalize_text(normalize_text(s)) = normalize_text(s).
C10_NormalizeIdempotent ==
  Len(hist) = 3 => hist[3] = hist[2]

(***************************************************************************)
(* Properties of the evidence score_matches_for_file returns.              *)
(***************************************************************************)
EvidenceTotal == SumOver(sc.words, DOMAIN sc.words) + SumOver(sc.fuzzy, DOMAIN sc.fuzzy)

\* C11: the score equals the sum of the counts of all entries of
\* details['words'] and details['fuzzy'], and no entry has count 0.
C11_EvidenceMatchesScore ==
  qstep # <<>> =>
    /\ sc.score = EvidenceTotal
    /\ \A kw \in DOMAIN sc.words : sc.words[kw] > 0
    /\ \A kw \in DOMAIN sc.fuzzy : sc.fuzzy[kw] > 0

====
